---- MODULE Spec2Model ----
(***************************************************************************)
(* Model of the InlinerClient image workflows of src/src/index.ts:         *)
(* generateImage, editImage, uploadImage and the polling loop pollImage,   *)
(* with the text functions they use (slugify, the data-URI split, atob,    *)
(* the URL parser's pathname).                                             *)
(*                                                                         *)
(* Text is a sequence of one-character strings, so that the conversions    *)
(* act character by character as the code does.                            *)
(***************************************************************************)
EXTENDS Integers, Sequences, FiniteSets, TLC

\* ------------------------------------------------------------------ text

LowerAlphabet == <<"a","b","c","d","e","f","g","h","i","j","k","l","m","n","o","p","q","r","s","t","u","v","w","x","y","z">>

UpperAlphabet == <<"A","B","C","D","E","F","G","H","I","J","K","L","M","N","O","P","Q","R","S","T","U","V","W","X","Y","Z">>

DigitChars == <<"0","1","2","3","4","5","6","7","8","9">>

Base64Alphabet == <<"A","B","C","D","E","F","G","H","I","J","K","L","M","N","O","P","Q","R","S","T","U","V","W","X","Y","Z","a","b","c","d","e","f","g","h","i","j","k","l","m","n","o","p","q","r","s","t","u","v","w","x","y","z","0","1","2","3","4","5","6","7","8","9","+","/">>

\* The JavaScript value undefined (an absent option, a missing JSON field).
\* A one-element tuple holding a word, so that it is comparable with text and
\* equal to no text.
Undefined == <<"undefined">>

\* String(undefined), as a template literal prints it.
UndefinedText == <<"u","n","d","e","f","i","n","e","d">>

Range(s) == {s[k] : k \in 1..Len(s)}

IndexOf(alphabet, c) == CHOOSE k \in 1..Len(alphabet) : alphabet[k] = c

StartsWith(s, prefix) ==
    /\ Len(s) >= Len(prefix)
    /\ SubSeq(s, 1, Len(prefix)) = prefix

\* Number -> decimal text, as a template literal prints a non-negative integer.
RECURSIVE Decimal(_)
Decimal(n) ==
    IF n < 10 THEN <<DigitChars[n + 1]>>
    ELSE Decimal(n \div 10) \o <<DigitChars[(n % 10) + 1]>>

\* `${x}` for a value that is text or undefined.
Template(x) == IF x = Undefined THEN UndefinedText ELSE x

\* ---------------------------------------------------------------- slugify

SlugMax == 100

\* String.prototype.toLowerCase on the characters of the model's alphabet.
toLowerCase(text) ==
    [k \in 1..Len(text) |->
        IF text[k] \in Range(UpperAlphabet)
        THEN LowerAlphabet[IndexOf(UpperAlphabet, text[k])]
        ELSE text[k]]

\* The character class [a-z0-9-].
IsSlugChar(c) == c \in Range(LowerAlphabet) \cup Range(DigitChars) \cup {"-"}

\* .replace(/[^a-z0-9-]+/g, '-'): every maximal run of other characters
\* becomes one hyphen.
\* (The first character of a run turns into the hyphen, the others into "",
\* which is then left out.)
ReplaceNonSlugRuns(text) ==
    LET marked == [k \in 1..Len(text) |->
                    IF IsSlugChar(text[k]) THEN text[k]
                    ELSE IF k > 1 /\ ~IsSlugChar(text[k - 1]) THEN ""
                    ELSE "-"]
        Kept(c) == c # ""
    IN  SelectSeq(marked, Kept)

\* .replace(/-{2,}/g, '-'): every run of two or more hyphens becomes one.
CollapseHyphens(text) ==
    LET marked == [k \in 1..Len(text) |->
                    IF text[k] = "-" /\ k > 1 /\ text[k - 1] = "-" THEN "" ELSE text[k]]
        Kept(c) == c # ""
    IN  SelectSeq(marked, Kept)

\* .replace(/^-|-$/g, ''): one hyphen off the start, one off the end.
StripEdgeHyphens(text) ==
    LET t == IF Len(text) > 0 /\ text[1] = "-" THEN Tail(text) ELSE text
    IN  IF Len(t) > 0 /\ t[Len(t)] = "-" THEN SubSeq(t, 1, Len(t) - 1) ELSE t

\* .slice(0, n)
SliceTo(text, n) == IF Len(text) > n THEN SubSeq(text, 1, n) ELSE text

slugify(text) ==
    SliceTo(StripEdgeHyphens(CollapseHyphens(ReplaceNonSlugRuns(toLowerCase(text)))), SlugMax)

\* ------------------------------------------------------- data-URI, base64

\* String.prototype.split(','): the segments between the commas.
SplitComma(text) ==
    LET commas == {k \in 1..Len(text) : text[k] = ","}
        \* the position of the j-th comma
        Comma(j) == CHOOSE k \in commas : Cardinality({c \in commas : c < k}) = j - 1
        First(j) == IF j = 1 THEN 1 ELSE Comma(j - 1) + 1
        Last(j) == IF j = Cardinality(commas) + 1 THEN Len(text) ELSE Comma(j) - 1
    IN  [j \in 1..(Cardinality(commas) + 1) |-> SubSeq(text, First(j), Last(j))]

\* Variant of SecondSegment: const [base64] = data.split(',').
SecondSegmentFirst(data) == SplitComma(data)[1]

\* const [, base64] = data.split(','): the second segment, undefined if none.
SecondSegment(data) ==
    LET parts == SplitComma(data)
    IN  IF Len(parts) >= 2 THEN parts[2] ELSE Undefined

\* atob: the forgiving-base64 decode. Padding is removed when the length is
\* a multiple of four; a length of 1 mod 4 or a character outside the
\* alphabet throws ([ok |-> FALSE]); otherwise the bytes are returned.
AtobStripPadding(b) ==
    IF Len(b) % 4 = 0 /\ Len(b) > 0 /\ b[Len(b)] = "="
    THEN IF b[Len(b) - 1] = "="
         THEN SubSeq(b, 1, Len(b) - 2)
         ELSE SubSeq(b, 1, Len(b) - 1)
    ELSE b

Sextet(c) == IndexOf(Base64Alphabet, c) - 1

atob(arg) ==
    LET b == AtobStripPadding(Template(arg))
        n == Len(b)
        v(k) == Sextet(b[k])
        \* the bytes of the group of characters that starts at k
        Group(k) ==
            IF k + 3 <= n
            THEN LET w == v(k) * 262144 + v(k + 1) * 4096 + v(k + 2) * 64 + v(k + 3)
                 IN  <<w \div 65536, (w \div 256) % 256, w % 256>>
            ELSE IF k + 2 <= n
            THEN LET w == v(k) * 4096 + v(k + 1) * 64 + v(k + 2)
                 IN  <<w \div 1024, (w \div 4) % 256>>
            ELSE IF k + 1 <= n
            THEN <<(v(k) * 64 + v(k + 1)) \div 16>>
            ELSE <<>>
        F[g \in 0..((n + 3) \div 4)] ==
            IF g = 0 THEN <<>> ELSE F[g - 1] \o Group(4 * (g - 1) + 1)
    IN  IF n % 4 = 1 \/ ~(Range(b) \subseteq Range(Base64Alphabet))
        THEN [ok |-> FALSE, bytes |-> <<>>]
        ELSE [ok |-> TRUE, bytes |-> F[(n + 3) \div 4]]

\* base64ToUint8Array: the char codes of atob's binary string.
base64ToUint8Array(base64) == atob(base64)


\* ------------------------------------------------------------ URL parsing

HttpScheme == <<"h","t","t","p",":","/","/">>

HttpsScheme == <<"h","t","t","p","s",":","/","/">>

\* source.startsWith('http://') || source.startsWith('https://')
HasHttpScheme(source) == StartsWith(source, HttpScheme) \/ StartsWith(source, HttpsScheme)

\* The first position of text holding a character of stops; Len(text) + 1 if none.
FirstOf(text, stops) ==
    IF \E k \in 1..Len(text) : text[k] \in stops
    THEN CHOOSE k \in 1..Len(text) :
            /\ text[k] \in stops
            /\ \A j \in 1..(k - 1) : text[j] \notin stops
    ELSE Len(text) + 1

\* Characters the URL parser refuses in a host (those of the model's alphabet).
ForbiddenHostChars == {" ", "<", ">", "^", "|", "%"}

\* The URL parser percent-encodes the characters of its path percent-encode
\* set; of these the model's texts hold the space, which becomes "%20".
PercentEncodePath(path) ==
    LET Encoded(k) == IF path[k] = " " THEN <<"%","2","0">> ELSE <<path[k]>>
        F[k \in 0..Len(path)] == IF k = 0 THEN <<>> ELSE F[k - 1] \o Encoded(k)
    IN  F[Len(path)]

\* Variant of URLPathname: the host is taken for the first segment of the path.
URLPathnameWithHost(source) ==
    LET rest == IF StartsWith(source, HttpsScheme)
                THEN SubSeq(source, Len(HttpsScheme) + 1, Len(source))
                ELSE SubSeq(source, Len(HttpScheme) + 1, Len(source))
        pathEnd == FirstOf(rest, {"?", "#"})
    IN  [ok |-> TRUE, pathname |-> <<"/">> \o PercentEncodePath(SubSeq(rest, 1, pathEnd - 1))]

\* new URL(source).pathname for an http(s) source made of a host and, possibly,
\* a path, a query and a fragment: the parser throws on an empty host or a
\* forbidden host character, the pathname runs from the first slash after the
\* host up to the query or fragment, percent-encoded, and is "/" when the
\* source has no path. (The model's sources hold no dot segments, backslashes,
\* credentials or ports.)
URLPathname(source) ==
    LET rest == IF StartsWith(source, HttpsScheme)
                THEN SubSeq(source, Len(HttpsScheme) + 1, Len(source))
                ELSE SubSeq(source, Len(HttpScheme) + 1, Len(source))
        hostEnd == FirstOf(rest, {"/", "?", "#"})
        host == SubSeq(rest, 1, hostEnd - 1)
        pathEnd == FirstOf(rest, {"?", "#"})
        path == SubSeq(rest, hostEnd, pathEnd - 1)
    IN  IF host = <<>> \/ Range(host) \cap ForbiddenHostChars # {}
        THEN [ok |-> FALSE, pathname |-> <<>>]
        ELSE [ok |-> TRUE, pathname |-> IF path = <<>> THEN <<"/">> ELSE PercentEncodePath(path)]

\* .replace(/^\//, ''): one leading slash removed.
StripLeadingSlash(text) ==
    IF Len(text) > 0 /\ text[1] = "/" THEN Tail(text) ELSE text

\* .replace(/\/$/, ''): one trailing slash removed.
StripTrailingSlash(text) ==
    IF Len(text) > 0 /\ text[Len(text)] = "/" THEN SubSeq(text, 1, Len(text) - 1) ELSE text

\* ----------------------------------------------------------------- client

DefaultImageUrl == <<"h","t","t","p","s",":","/","/","i","m","g",".","i","n","l","i","n","e","r",".","a","i">>

\* constructor: this.imageUrl
ClientImageUrl(options) ==
    StripTrailingSlash(IF "imageUrl" \in DOMAIN options /\ options.imageUrl # <<>>
                       THEN options.imageUrl
                       ELSE DefaultImageUrl)

\* An option: its value, or undefined when the caller left it out.
Opt(options, field) == IF field \in DOMAIN options THEN options[field] ELSE Undefined

Has(options, field) == field \in DOMAIN options

\* JavaScript truthiness of an optional number / an optional text.
TruthyNumber(options, field) == Has(options, field) /\ options[field] # 0

TruthyText(options, field) == Has(options, field) /\ options[field] # <<>>

Png == <<"p","n","g">>

Jpg == <<"j","p","g">>

\* const { format = 'png' } = options
FormatOf(options) == IF Has(options, "format") THEN options.format ELSE Png

\* Variant of SmartUrlOf: the option is not read.
SmartUrlOfAlways(options) == TRUE

\* const { smartUrl = true } = options
SmartUrlOf(options) == IF Has(options, "smartUrl") THEN options.smartUrl ELSE TRUE

\* ------------------------------------------------------------------ paths

RequestJsonPrefix == <<"c","o","n","t","e","n","t","/","r","e","q","u","e","s","t","-","j","s","o","n","/">>

\* pollImage: const jsonPath = `content/request-json/${contentPath}`
jsonPath(path) == RequestJsonPrefix \o path

\* pollImage: const imgUrl = `${this.imageUrl}/${contentPath}`
imgUrlOf(base, path) == base \o <<"/">> \o path

PollSeconds == 3

DefaultMaxSeconds == 180

\* Variants of maxAttempts: Math.floor(maxSeconds / 3) + 1, and Math.floor.
maxAttemptsFloorPlusOne(seconds) == seconds \div PollSeconds + 1

maxAttemptsFloor(seconds) == seconds \div PollSeconds

\* pollImage: const maxAttempts = Math.ceil(maxSeconds / 3)
maxAttempts(seconds) == (seconds + PollSeconds - 1) \div PollSeconds

\* Variant of dimsSuffix: `_${height}x${width}`.
dimsSuffixSwapped(options) ==
    IF TruthyNumber(options, "width") /\ TruthyNumber(options, "height")
    THEN <<"_">> \o Decimal(options.height) \o <<"x">> \o Decimal(options.width)
    ELSE <<>>

\* width && height ? `_${width}x${height}` : ''
dimsSuffix(options) ==
    IF TruthyNumber(options, "width") /\ TruthyNumber(options, "height")
    THEN <<"_">> \o Decimal(options.width) \o <<"x">> \o Decimal(options.height)
    ELSE <<>>

\* generateImage, smartUrl false: `${project}/${slug}_${width}x${height}.${format}`
\* or `${project}/${slug}.${format}`
LegacyContentPath(options) ==
    options.project \o <<"/">> \o slugify(options.prompt) \o dimsSuffix(options)
        \o <<".">> \o FormatOf(options)

\* generateImage, smartUrl true:
\* result.prompt?.replace(/^\//, '') || `${project}/${recommendedSlug}.${format}`
SmartContentPath(result, options, slug) ==
    IF Has(result, "prompt") /\ StripLeadingSlash(result.prompt) # <<>>
    THEN StripLeadingSlash(result.prompt)
    ELSE options.project \o <<"/">> \o Template(slug) \o <<".">> \o FormatOf(options)

\* editImage: `${basePath}/${editSlug}${dimsSuffix}.${format}`
EditContentPath(basePath, options) ==
    basePath \o <<"/">> \o slugify(options.instruction) \o dimsSuffix(options)
        \o <<".">> \o FormatOf(options)

EditSourcePrefix == <<"e","d","i","t","-","s","o","u","r","c","e","-">>

\* editImage: const uploadName = this.slugify(`edit-source-${Date.now()}`)
UploadName(now) == slugify(EditSourcePrefix \o Decimal(now))

\* Variant of HasInlineData: the data of the answer is never looked at.
HasInlineDataNever(json) == FALSE

\* json.mediaAsset?.data, as a condition
HasInlineData(json) ==
    /\ Has(json, "mediaAsset")
    /\ TruthyText(json.mediaAsset, "data")

\* ----------------------------------------------------------------- inputs

Invocations == {1, 2}

ProjectP == <<"p","r","o","j">>

PromptAB == <<"A"," ","b","!">>

\* The options generateImage is called with.
GenerateInputs ==
    { [project |-> ProjectP, prompt |-> PromptAB, width |-> 8, height |-> 6, format |-> Jpg],
      [project |-> ProjectP, prompt |-> PromptAB, smartUrl |-> FALSE],
      [project |-> ProjectP, prompt |-> PromptAB, width |-> 8, height |-> 6, format |-> Jpg, smartUrl |-> FALSE],
      [project |-> ProjectP, prompt |-> PromptAB, width |-> 0, height |-> 6, smartUrl |-> FALSE] }

\* "https://cdn.example/proj/img_800x600.png"
SourceExample == <<"h","t","t","p","s",":","/","/","c","d","n",".","e","x","a","m","p","l","e","/","p","r","o","j","/","i","m","g","_","8","0","0","x","6","0","0",".","p","n","g">>

\* "http://h/a.png?v=1"
SourceWithQuery == <<"h","t","t","p",":","/","/","h","/","a",".","p","n","g","?","v","=","1">>

\* "https://h"
SourceNoPath == <<"h","t","t","p","s",":","/","/","h">>

\* "https://"
SourceNoHost == <<"h","t","t","p","s",":","/","/">>

\* "https://a b/c"
SourceBadHost == <<"h","t","t","p","s",":","/","/","a"," ","b","/","c">>

\* "img.png"
SourceFileName == <<"i","m","g",".","p","n","g">>

\* "ftp://h/a"
SourceFtp == <<"f","t","p",":","/","/","h","/","a">>

StringSource(text) == [type |-> "string", value |-> text]

BufferSource == [type |-> "Buffer", value |-> <<>>]

BlobSource == [type |-> "Blob", value |-> <<>>]

\* "make it sunset"
InstructionSunset == <<"m","a","k","e"," ","i","t"," ","s","u","n","s","e","t">>

InstructionX == <<"X">>

\* The (source, options) pairs editImage is called with.
EditInputs ==
    { <<StringSource(SourceExample), [instruction |-> InstructionSunset]>>,
      <<StringSource(SourceExample), [instruction |-> InstructionSunset, width |-> 8, height |-> 6, format |-> Jpg]>>,
      <<StringSource(SourceWithQuery), [instruction |-> InstructionX, width |-> 0, height |-> 6]>>,
      <<StringSource(SourceNoPath), [instruction |-> InstructionX, height |-> 6, project |-> ProjectP]>>,
      <<StringSource(SourceNoHost), [instruction |-> InstructionX]>>,
      <<StringSource(SourceBadHost), [instruction |-> InstructionX, project |-> ProjectP]>>,
      <<StringSource(SourceFileName), [instruction |-> InstructionX]>>,
      <<StringSource(SourceFileName), [instruction |-> InstructionX, project |-> ProjectP]>>,
      <<StringSource(SourceFtp), [instruction |-> InstructionX]>>,
      <<BufferSource, [instruction |-> InstructionX]>>,
      <<BlobSource, [instruction |-> InstructionX, project |-> <<>>]>>,
      <<BlobSource, [instruction |-> InstructionSunset, project |-> ProjectP, width |-> 8, height |-> 6]>> }

\* Date.now() at the call
NowValues == {7, 12}

\* The paths pollImage is called with directly, and the timeouts.
PollPaths == { <<"p","/","a",".","p","n","g">> }

PollLabels == {"Generating", "Editing"}

MaxSeconds == 7

\* ---------------------------------------------------------- server answers

\* "data:;base64,QUI=" (the bytes 65 66) and "data:;base64,QUJD" (65 66 67)
UriAB == <<"d","a","t","a",":",";","b","a","s","e","6","4",",","Q","U","I","=">>

UriABC == <<"d","a","t","a",":",";","b","a","s","e","6","4",",","Q","U","J","D">>

\* no comma; a comma and text atob refuses; two commas
UriNoComma == <<"Q","U","I","=">>

UriBadBase64 == <<"d","a","t","a",":",";","b","a","s","e","6","4",",","Q","*">>

UriTwoCommas == <<"d","a","t","a",":",";","b","a","s","e","6","4",",","Q","Q","=","=",",","Q","U","I","=">>

DataUris == {UriAB, UriABC, UriNoComma, UriBadBase64, UriTwoCommas}

BodyText == <<"n","o","p","e">>

\* fetch() rejected: no response at all
Rejected == [kind |-> "reject"]

\* A response whose body text() and json() yield as given (textOk / jsonOk
\* FALSE: reading or parsing the body throws).
Response(status, textOk, text, jsonOk, json) ==
    [kind |-> "http", status |-> status, textOk |-> textOk, text |-> text,
     jsonOk |-> jsonOk, json |-> json]

NoJson == [none |-> TRUE]

\* res.ok
IsOk(res) == res.status >= 200 /\ res.status <= 299

\* What the status endpoint may answer.
StatusResponses ==
    {Rejected}
    \cup {Response(200, TRUE, <<>>, TRUE, [mediaAsset |-> [data |-> d]]) : d \in DataUris \cup {<<>>}}
    \cup {Response(200, TRUE, <<>>, TRUE, [success |-> TRUE]),
          Response(200, TRUE, BodyText, FALSE, NoJson),
          Response(202, TRUE, <<>>, TRUE, [success |-> TRUE])}
    \cup {Response(201, TRUE, <<>>, FALSE, NoJson),
          Response(404, TRUE, BodyText, FALSE, NoJson),
          Response(404, FALSE, <<>>, FALSE, NoJson)}

CdnBytes == <<137, 80>>

\* What the CDN may answer: bytes holds what arrayBuffer() yields.
CdnResponses ==
    {Rejected}
    \cup {[kind |-> "http", status |-> 200, bodyOk |-> b, bytes |-> CdnBytes] : b \in BOOLEAN}
    \cup {[kind |-> "http", status |-> 404, bodyOk |-> TRUE, bytes |-> <<>>]}

SlugS == <<"s","-","1">>

\* What url/recommend may answer.
RecommendResponses ==
    {Rejected,
     Response(500, TRUE, BodyText, FALSE, NoJson),
     Response(200, TRUE, BodyText, FALSE, NoJson),
     Response(200, TRUE, <<>>, TRUE, [recommendedSlug |-> SlugS]),
     Response(200, TRUE, <<>>, TRUE, [success |-> TRUE])}

\* "/proj/s-1.png"
EchoedPath == <<"/","p","r","o","j","/","s","-","1",".","p","n","g">>

\* What content/generate may answer.
GenerateResponses ==
    {Rejected,
     Response(500, TRUE, BodyText, FALSE, NoJson),
     Response(200, TRUE, BodyText, FALSE, NoJson),
     Response(200, TRUE, <<>>, TRUE, [prompt |-> EchoedPath]),
     Response(200, TRUE, <<>>, TRUE, [success |-> TRUE]),
     Response(200, TRUE, <<>>, TRUE, [prompt |-> EchoedPath, mediaAsset |-> [data |-> UriAB]]),
     Response(200, TRUE, <<>>, TRUE, [mediaAsset |-> [data |-> UriNoComma]])}

\* "/proj/up"
UploadedPath == <<"/","p","r","o","j","/","u","p">>

\* What content/upload may answer.
UploadResponses ==
    {Rejected,
     Response(500, TRUE, BodyText, FALSE, NoJson),
     Response(200, TRUE, <<>>, TRUE, [content |-> [prompt |-> UploadedPath]]),
     Response(200, TRUE, <<>>, TRUE, [success |-> TRUE])}

\* ------------------------------------------------------------------ state

VARIABLES
    imageUrl,         \* this.imageUrl of the client
    live,             \* the invocations the caller makes
    pc,               \* where each invocation stands: "idle", the request it awaits
                      \* ("recommend", "generate", "upload", "status", "cdn"), "wait", "done"
    call,             \* the method called and its arguments
    recommendedSlug,  \* generateImage's recommendedSlug
    contentPath,      \* the contentPath of the workflow and of pollImage
    label,            \* pollImage's label
    maxSeconds,       \* pollImage's maxSeconds
    i,                \* pollImage's loop counter
    recommendAnswer,  \* how url/recommend answered: "none", "reject", "status" (not
                      \* 2xx), "parse" (2xx, body not JSON) or "ok"
    generateAnswer,   \* the answer of content/generate
    uploadAnswer,     \* the answer of content/upload
    lastStatus,       \* the latest answer of the status endpoint
    lastCdn,          \* the CDN's answer in the latest attempt
    n202,             \* how many status answers were 202
    waits,            \* how many 3-second waits were started
    count,            \* requests issued, per endpoint
    sent,             \* what was requested, per endpoint
    outcome,          \* what the call returned or threw
    slugText,         \* a text handed to slugify
    slugOnce,         \* slugify(slugText), once it has been computed
    slugTwice         \* slugify(slugOnce), once it has been computed

pollVars == <<contentPath, label, maxSeconds, i>>

histVars == <<recommendAnswer, generateAnswer, uploadAnswer, lastStatus, lastCdn, n202, waits>>

vars == <<imageUrl, live, pc, call, recommendedSlug, contentPath, label, maxSeconds, i,
          recommendAnswer, generateAnswer, uploadAnswer, lastStatus, lastCdn, n202, waits,
          count, sent, outcome, slugText, slugOnce, slugTwice>>

slugVars == <<slugText, slugOnce, slugTwice>>

Endpoints == {"recommend", "generate", "upload", "status", "cdn"}

Pending == [kind |-> "pending"]

\* return { data, url, contentPath }
Success(data, path) ==
    [kind |-> "ok", data |-> data, url |-> imgUrlOf(imageUrl, path), contentPath |-> path]

Failure(error) == [kind |-> "error", error |-> error]

\* apiFetch / apiFormFetch: `Inliner API error ${res.status}: ${errorData.message || body}`
ApiError(res) ==
    [name |-> "ApiError", statusCode |-> res.status,
     message |-> IF res.jsonOk /\ TruthyText(res.json, "message") THEN res.json.message ELSE res.text]

\* `Invalid source URL: ${source}`
InvalidSourceError(source) == [name |-> "InvalidSource", source |-> source]

\* 'Project namespace is required when editing local files'
MissingProjectError == [name |-> "MissingProject"]

\* `${label} failed (${res.status}): ${body}`
OperationFailedError(lbl, status, body) ==
    [name |-> "OperationFailed", label |-> lbl, statusCode |-> status, body |-> body]

\* `${label} timed out after ${maxSeconds}s. URL: ${imgUrl}`
OperationTimedOutError(lbl, seconds, url) ==
    [name |-> "OperationTimedOut", label |-> lbl, timeoutSeconds |-> seconds, url |-> url]

\* Errors of the platform that pass through: fetch rejecting, json() or
\* arrayBuffer() failing, atob refusing its argument, a TypeError.
PlatformError(name) == [name |-> name]

NoAnswer == [kind |-> "none"]

\* { apiKey: 'k' }: the options of a client on the default URLs
DefaultOptions == [apiKey |-> <<"k">>]

\* new InlinerClient(options), and the invocations the caller will make
Constructed(options, callers) ==
    /\ imageUrl = ClientImageUrl(options)
    /\ live = callers
    /\ pc = [n \in Invocations |-> "idle"]
    /\ call = [n \in Invocations |-> [op |-> "none"]]
    /\ recommendedSlug = [n \in Invocations |-> Undefined]
    /\ contentPath = [n \in Invocations |-> Undefined]
    /\ label = [n \in Invocations |-> ""]
    /\ maxSeconds = [n \in Invocations |-> 0]
    /\ i = [n \in Invocations |-> 0]
    /\ recommendAnswer = [n \in Invocations |-> "none"]
    /\ generateAnswer = [n \in Invocations |-> NoAnswer]
    /\ uploadAnswer = [n \in Invocations |-> NoAnswer]
    /\ lastStatus = [n \in Invocations |-> NoAnswer]
    /\ lastCdn = [n \in Invocations |-> NoAnswer]
    /\ n202 = [n \in Invocations |-> 0]
    /\ waits = [n \in Invocations |-> 0]
    /\ count = [n \in Invocations |-> [e \in Endpoints |-> 0]]
    /\ sent = [n \in Invocations |-> [e \in Endpoints |-> {}]]
    /\ outcome = [n \in Invocations |-> Pending]

Init ==
    /\ Constructed(DefaultOptions, {1})
    /\ slugText = <<>>
    /\ slugOnce = Undefined
    /\ slugTwice = Undefined

\* ------------------------------------------------------------------ steps

\* fetch(...): the request goes out and the invocation awaits the answer.
Request(n, ep, target) ==
    /\ pc' = [pc EXCEPT ![n] = ep]
    /\ count' = [count EXCEPT ![n][ep] = @ + 1]
    /\ sent' = [sent EXCEPT ![n][ep] = @ \cup {target}]
    /\ outcome' = outcome

\* return or throw: the invocation is over.
Finish(n, out) ==
    /\ pc' = [pc EXCEPT ![n] = "done"]
    /\ outcome' = [outcome EXCEPT ![n] = out]
    /\ UNCHANGED <<count, sent>>

\* Variant of LoopTest: the path is derived anew at each attempt, with the
\* attempt's number in it.
LoopTestFreshPath(n, k, path, lbl, seconds) ==
    IF k < maxAttempts(seconds)
    THEN Request(n, "status", jsonPath(IF k = 0 THEN path ELSE path \o Decimal(k)))
    ELSE Finish(n, Failure(OperationTimedOutError(lbl, seconds, imgUrlOf(imageUrl, path))))

\* Variant of LoopTest: the attempts of the other invocation count against
\* the budget as well, as they would with one counter kept on the client.
LoopTestSharedBudget(n, k, path, lbl, seconds) ==
    LET other == CHOOSE m \in Invocations : m # n
    IN  IF k + count[other].status < maxAttempts(seconds)
        THEN Request(n, "status", jsonPath(path))
        ELSE Finish(n, Failure(OperationTimedOutError(lbl, seconds, imgUrlOf(imageUrl, path))))

\* Variant of LoopTest: i <= maxAttempts.
LoopTestInclusive(n, k, path, lbl, seconds) ==
    IF k <= maxAttempts(seconds)
    THEN Request(n, "status", jsonPath(path))
    ELSE Finish(n, Failure(OperationTimedOutError(lbl, seconds, imgUrlOf(imageUrl, path))))

\* pollImage's for loop at its test: i < maxAttempts, then the status fetch;
\* otherwise the timeout is thrown.
LoopTest(n, k, path, lbl, seconds) ==
    IF k < maxAttempts(seconds)
    THEN Request(n, "status", jsonPath(path))
    ELSE Finish(n, Failure(OperationTimedOutError(lbl, seconds, imgUrlOf(imageUrl, path))))

\* pollImage(contentPath, label, maxSeconds) up to its first await.
pollImage(n, path, lbl, seconds) ==
    /\ contentPath' = [contentPath EXCEPT ![n] = path]
    /\ label' = [label EXCEPT ![n] = lbl]
    /\ maxSeconds' = [maxSeconds EXCEPT ![n] = seconds]
    /\ i' = [i EXCEPT ![n] = 0]
    /\ LoopTest(n, 0, path, lbl, seconds)

\* The caller invokes the polling primitive with a timeout of its choice.
CallPollImage(n, path, lbl, seconds) ==
    /\ n \in live
    /\ pc[n] = "idle"
    /\ call' = [call EXCEPT ![n] = [op |-> "pollImage"]]
    /\ pollImage(n, path, lbl, seconds)
    /\ UNCHANGED <<imageUrl, live, recommendedSlug, histVars>>

\* Variants of IsTerminalStatus: only 4xx and 5xx end the poll; !res.ok ends it.
IsTerminalStatusFrom400(status) == status >= 400

IsTerminalStatusNotOk(status) == status < 200 \/ status > 299

\* The status endpoint answered.
IsTerminalStatus(status) == status # 200 /\ status # 202

StatusSummary(res) ==
    IF res.kind = "reject" THEN res
    ELSE [kind |-> "http", status |-> res.status,
          inline |-> res.status = 200 /\ res.jsonOk /\ HasInlineData(res.json),
          data |-> IF res.status = 200 /\ res.jsonOk /\ HasInlineData(res.json)
                   THEN res.json.mediaAsset.data ELSE Undefined,
          jsonOk |-> res.jsonOk, textOk |-> res.textOk, text |-> res.text]

StatusResponse(n, res) ==
    /\ pc[n] = "status"
    /\ lastStatus' = [lastStatus EXCEPT ![n] = StatusSummary(res)]
    /\ lastCdn' = [lastCdn EXCEPT ![n] = NoAnswer]
    /\ n202' = [n202 EXCEPT ![n] = IF res.kind = "http" /\ res.status = 202 THEN @ + 1 ELSE @]
    /\ IF res.kind = "reject"
       THEN Finish(n, Failure(PlatformError("FetchError"))) /\ UNCHANGED waits
       ELSE IF res.status = 200 /\ ~res.jsonOk
       THEN Finish(n, Failure(PlatformError("SyntaxError"))) /\ UNCHANGED waits
       ELSE IF res.status = 200 /\ HasInlineData(res.json)
       THEN LET decoded == base64ToUint8Array(SecondSegment(res.json.mediaAsset.data))
            IN  /\ IF decoded.ok
                   THEN Finish(n, Success(decoded.bytes, contentPath[n]))
                   ELSE Finish(n, Failure(PlatformError("InvalidCharacterError")))
                /\ UNCHANGED waits
       ELSE IF res.status = 200
       THEN Request(n, "cdn", imgUrlOf(imageUrl, contentPath[n])) /\ UNCHANGED waits
       ELSE IF IsTerminalStatus(res.status)
       THEN /\ Finish(n, Failure(OperationFailedError(label[n], res.status,
                                    IF res.textOk THEN res.text ELSE <<>>)))
            /\ UNCHANGED waits
       ELSE /\ pc' = [pc EXCEPT ![n] = "wait"]
            /\ waits' = [waits EXCEPT ![n] = @ + 1]
            /\ UNCHANGED <<count, sent, outcome>>
    /\ UNCHANGED <<imageUrl, live, call, recommendedSlug, pollVars, recommendAnswer, generateAnswer, uploadAnswer>>

\* The CDN answered the fallback fetch.
CdnResponse(n, res) ==
    /\ pc[n] = "cdn"
    /\ lastCdn' = [lastCdn EXCEPT ![n] = res]
    /\ IF res.kind = "reject"
       THEN Finish(n, Failure(PlatformError("FetchError"))) /\ UNCHANGED waits
       ELSE IF IsOk(res)
       THEN /\ IF res.bodyOk
               THEN Finish(n, Success(res.bytes, contentPath[n]))
               ELSE Finish(n, Failure(PlatformError("BodyError")))
            /\ UNCHANGED waits
       ELSE /\ pc' = [pc EXCEPT ![n] = "wait"]
            /\ waits' = [waits EXCEPT ![n] = @ + 1]
            /\ UNCHANGED <<count, sent, outcome>>
    /\ UNCHANGED <<imageUrl, live, call, recommendedSlug, pollVars, recommendAnswer, generateAnswer,
                 uploadAnswer, lastStatus, n202>>

\* The 3-second timer fired: i++, then the loop's test.
TimerFires(n) ==
    /\ pc[n] = "wait"
    /\ i' = [i EXCEPT ![n] = @ + 1]
    /\ LoopTest(n, i[n] + 1, contentPath[n], label[n], maxSeconds[n])
    /\ UNCHANGED <<imageUrl, live, call, recommendedSlug, contentPath, label, maxSeconds, histVars>>

\* ---------------------------------------------------------- generateImage

\* body of url/recommend: JSON.stringify({ prompt, project, width, height,
\* extension: format }); stringify leaves out the fields that are undefined.
RecommendBody(options) ==
    [f \in (DOMAIN options \cap {"prompt", "project", "width", "height"}) \cup {"extension"} |->
        IF f = "extension" THEN FormatOf(options) ELSE options[f]]

\* body of content/generate: JSON.stringify({ prompt, project, slug:
\* recommendedSlug, width, height, extension: format }); slug holds Undefined
\* when stringify leaves it out.
GenerateBody(options, slug) ==
    [f \in (DOMAIN options \cap {"prompt", "project", "width", "height"}) \cup {"slug", "extension"} |->
        IF f = "extension" THEN FormatOf(options)
        ELSE IF f = "slug" THEN slug
        ELSE options[f]]

\* generateImage(options) up to its first await.
CallGenerateImage(n, options) ==
    /\ n \in live
    /\ pc[n] = "idle"
    /\ call' = [call EXCEPT ![n] = [op |-> "generateImage", options |-> options]]
    /\ IF SmartUrlOf(options)
       THEN /\ Request(n, "recommend", RecommendBody(options))
            /\ UNCHANGED pollVars
       ELSE pollImage(n, LegacyContentPath(options), "Generating", DefaultMaxSeconds)
    /\ UNCHANGED <<imageUrl, live, recommendedSlug, histVars>>

\* Variant of RecommendedSlugOf: catch { recommendedSlug = prompt }.
RecommendedSlugOfRaw(res, prompt) ==
    IF res.kind = "http" /\ IsOk(res) /\ res.jsonOk
    THEN Opt(res.json, "recommendedSlug")
    ELSE prompt

\* try { recommendedSlug = (await apiFetch('url/recommend')).recommendedSlug }
\* catch { recommendedSlug = this.slugify(prompt) }
RecommendedSlugOf(res, prompt) ==
    IF res.kind = "http" /\ IsOk(res) /\ res.jsonOk
    THEN Opt(res.json, "recommendedSlug")
    ELSE slugify(prompt)

\* url/recommend answered or failed: the content/generate request follows.
RecommendResponse(n, res) ==
    /\ pc[n] = "recommend"
    /\ LET slug == RecommendedSlugOf(res, call[n].options.prompt)
       IN  /\ recommendedSlug' = [recommendedSlug EXCEPT ![n] = slug]
           /\ Request(n, "generate", GenerateBody(call[n].options, slug))
    /\ recommendAnswer' = [recommendAnswer EXCEPT ![n] =
            IF res.kind = "reject" THEN "reject"
            ELSE IF ~IsOk(res) THEN "status"
            ELSE IF ~res.jsonOk THEN "parse"
            ELSE "ok"]
    /\ UNCHANGED <<imageUrl, live, call, pollVars, generateAnswer, uploadAnswer, lastStatus, lastCdn, n202, waits>>

\* Variant of ApiFetchFails: res.ok is not tested.
ApiFetchFailsOnReject(res) == res.kind = "reject"

\* What apiFetch / apiFormFetch throws for an answer, if it throws.
ApiFetchFails(res) == res.kind = "reject" \/ ~IsOk(res) \/ ~res.jsonOk

ApiFetchError(res) ==
    IF res.kind = "reject" THEN PlatformError("FetchError")
    ELSE IF ~IsOk(res) THEN ApiError(res)
    ELSE PlatformError("SyntaxError")

\* content/generate answered: inline data is returned at once, otherwise the
\* poll starts.
GenerateResponse(n, res) ==
    /\ pc[n] = "generate"
    /\ generateAnswer' = [generateAnswer EXCEPT ![n] = res]
    /\ IF ApiFetchFails(res)
       THEN Finish(n, Failure(ApiFetchError(res))) /\ UNCHANGED pollVars
       ELSE LET path == SmartContentPath(res.json, call[n].options, recommendedSlug[n])
            IN  IF HasInlineData(res.json)
                THEN LET decoded == base64ToUint8Array(SecondSegment(res.json.mediaAsset.data))
                     IN  /\ contentPath' = [contentPath EXCEPT ![n] = path]
                         /\ IF decoded.ok
                            THEN Finish(n, Success(decoded.bytes, path))
                            ELSE Finish(n, Failure(PlatformError("InvalidCharacterError")))
                         /\ UNCHANGED <<label, maxSeconds, i>>
                ELSE pollImage(n, path, "Generating", DefaultMaxSeconds)
    /\ UNCHANGED <<imageUrl, live, call, recommendedSlug, recommendAnswer, uploadAnswer,
                   lastStatus, lastCdn, n202, waits>>

\* ------------------------------------------------- editImage, uploadImage

\* typeof source === 'string' && (source.startsWith('http://') || ...)
IsUrlSource(source) == source.type = "string" /\ HasHttpScheme(source.value)

\* The position of the last "." of name, 0 if none.
LastDot(name) ==
    IF "." \in Range(name)
    THEN CHOOSE k \in 1..Len(name) : name[k] = "." /\ \A j \in (k + 1)..Len(name) : name[j] # "."
    ELSE 0

\* .replace(/[^a-z0-9]+/g, '-'): the hyphen is replaced like any other character.
ReplaceNonAlnumRuns(text) ==
    LET IsAlnum(c) == c \in Range(LowerAlphabet) \cup Range(DigitChars)
        F[k \in 0..Len(text)] ==
            IF k = 0 THEN <<>>
            ELSE IF IsAlnum(text[k]) THEN Append(F[k - 1], text[k])
            ELSE IF k > 1 /\ ~IsAlnum(text[k - 1]) THEN F[k - 1]
            ELSE Append(F[k - 1], "-")
    IN  F[Len(text)]

ImageWord == <<"i","m","a","g","e">>

\* slugifyFilename: the last extension off, lower case, runs of other
\* characters to a hyphen, hyphens off both ends, 'image' if nothing is left.
\* (After the replace a hyphen run is one hyphen, so /^-+|-+$/g takes one.)
slugifyFilename(name) ==
    LET withoutExt == IF LastDot(name) > 0 THEN SubSeq(name, 1, LastDot(name) - 1) ELSE name
        slug == StripEdgeHyphens(ReplaceNonAlnumRuns(toLowerCase(withoutExt)))
    IN  IF slug = <<>> THEN ImageWord ELSE slug

\* uploadImage: formData.append('file', file, filename) accepts a Blob (a
\* Buffer is wrapped in one) and throws a TypeError for any other value.
FormDataAccepts(file) == file.type \in {"Buffer", "Blob"}

\* uploadImage: the form's fields
UploadForm(filename, options) ==
    [filename |-> filename, project |-> options.project,
     prompt |-> IF TruthyText(options, "slug") THEN options.slug ELSE slugifyFilename(filename)]

\* Variant of ProjectMissing: the check is left out.
ProjectMissingNever(options) == FALSE

\* editImage: if (!project)
ProjectMissing(options) == ~TruthyText(options, "project")

\* editImage(source, options) up to its first await; now is what Date.now()
\* yields if the upload branch reads it.
CallEditImage(n, source, options, now) ==
    /\ n \in live
    /\ pc[n] = "idle"
    /\ call' = [call EXCEPT ![n] = [op |-> "editImage", source |-> source, options |-> options]]
    /\ IF IsUrlSource(source)
       THEN LET url == URLPathname(source.value)
            IN  IF ~url.ok
                THEN Finish(n, Failure(InvalidSourceError(source.value))) /\ UNCHANGED pollVars
                ELSE pollImage(n, EditContentPath(StripLeadingSlash(url.pathname), options),
                               "Editing", DefaultMaxSeconds)
       ELSE IF ProjectMissing(options)
       THEN Finish(n, Failure(MissingProjectError)) /\ UNCHANGED pollVars
       ELSE IF ~FormDataAccepts(source)
       THEN Finish(n, Failure(PlatformError("TypeError"))) /\ UNCHANGED pollVars
       ELSE /\ Request(n, "upload",
                       UploadForm(UploadName(now) \o <<".">> \o Png,
                                  [project |-> Opt(options, "project"), slug |-> UploadName(now)]))
            /\ UNCHANGED pollVars
    /\ UNCHANGED <<imageUrl, live, recommendedSlug, histVars>>

\* content/upload answered: the poll starts under the uploaded path.
UploadResponse(n, res) ==
    /\ pc[n] = "upload"
    /\ uploadAnswer' = [uploadAnswer EXCEPT ![n] = res]
    /\ IF ApiFetchFails(res)
       THEN Finish(n, Failure(ApiFetchError(res))) /\ UNCHANGED pollVars
       ELSE IF ~(Has(res.json, "content") /\ Has(res.json.content, "prompt"))
       THEN Finish(n, Failure(PlatformError("TypeError"))) /\ UNCHANGED pollVars
       ELSE pollImage(n, EditContentPath(StripLeadingSlash(res.json.content.prompt), call[n].options),
                      "Editing", DefaultMaxSeconds)
    /\ UNCHANGED <<imageUrl, live, call, recommendedSlug, recommendAnswer, generateAnswer,
                   lastStatus, lastCdn, n202, waits>>

\* ---------------------------------------------------------- specification

\* The steps of invocation n.
Step(n) ==
    /\ \/ \E o \in GenerateInputs : CallGenerateImage(n, o)
       \/ \E e \in EditInputs, now \in NowValues : CallEditImage(n, e[1], e[2], now)
       \/ \E p \in PollPaths, l \in PollLabels, t \in 0..MaxSeconds : CallPollImage(n, p, l, t)
       \/ \E r \in RecommendResponses : RecommendResponse(n, r)
       \/ \E r \in GenerateResponses : GenerateResponse(n, r)
       \/ \E r \in UploadResponses : UploadResponse(n, r)
       \/ \E r \in StatusResponses : StatusResponse(n, r)
       \/ \E r \in CdnResponses : CdnResponse(n, r)
       \/ TimerFires(n)
    /\ UNCHANGED slugVars

Next == \E n \in Invocations : Step(n)

Spec == Init /\ [][Next]_vars

\* ------------------------------------------- two concurrent invocations

\* "p/b.png", a second path next to the one of PollPaths
OtherPath == <<"p","/","b",".","p","n","g">>

ConcPaths == PollPaths \cup {OtherPath}

ConcSeconds == 4

\* The calls and the answers of the concurrent runs: polls with short
\* timeouts on either path, and smart generations that content/generate
\* answers with inline data or with a failure.
ConcGenerateInputs == {o \in GenerateInputs : SmartUrlOf(o)}

ConcGenerateResponses ==
    {r \in GenerateResponses : ApiFetchFails(r) \/ HasInlineData(r.json)}

ConcStatusResponses ==
    {Rejected,
     Response(200, TRUE, <<>>, TRUE, [mediaAsset |-> [data |-> UriAB]]),
     Response(200, TRUE, <<>>, TRUE, [success |-> TRUE]),
     Response(202, TRUE, <<>>, TRUE, [success |-> TRUE]),
     Response(404, TRUE, BodyText, FALSE, NoJson)}

\* Both invocations are made on the one client.
ConcInit ==
    /\ Constructed(DefaultOptions, Invocations)
    /\ slugText = <<>>
    /\ slugOnce = Undefined
    /\ slugTwice = Undefined

ConcStep(n) ==
    /\ \/ \E p \in ConcPaths, t \in 0..ConcSeconds : CallPollImage(n, p, "Generating", t)
       \/ \E o \in ConcGenerateInputs : CallGenerateImage(n, o)
       \/ \E r \in RecommendResponses : RecommendResponse(n, r)
       \/ \E r \in ConcGenerateResponses : GenerateResponse(n, r)
       \/ \E r \in ConcStatusResponses : StatusResponse(n, r)
       \/ \E r \in CdnResponses : CdnResponse(n, r)
       \/ TimerFires(n)
    /\ UNCHANGED slugVars

\* The awaits of the two invocations interleave in any order.
ConcNext == \E n \in Invocations : ConcStep(n)

ConcSpec == ConcInit /\ [][ConcNext]_vars

\* ------------------------------------------------------- URL chaining

\* "my s", a project name with a space in it
ProjectWithSpace == <<"m","y"," ","s">>

\* "https://cdn.example/img/": an image base URL with a path
ImageUrlWithPath == <<"h","t","t","p","s",":","/","/","c","d","n",".","e","x","a","m","p","l","e","/","i","m","g","/">>

ChainClients == {DefaultOptions, [apiKey |-> <<"k">>, imageUrl |-> ImageUrlWithPath]}

\* The first call of a chain: a smart generation, a legacy one, a legacy one
\* in the project with the space, or an edit by URL.
ChainGenerateInputs ==
    { [project |-> ProjectP, prompt |-> PromptAB],
      [project |-> ProjectP, prompt |-> PromptAB, smartUrl |-> FALSE],
      [project |-> ProjectWithSpace, prompt |-> PromptAB, smartUrl |-> FALSE] }

ChainFirstEdits ==
    { <<StringSource(SourceExample), [instruction |-> InstructionSunset]>> }

\* The options of the edit that takes the earlier result's url as its source.
ChainEditOptions ==
    { [instruction |-> InstructionX],
      [instruction |-> InstructionSunset, width |-> 8, height |-> 6, format |-> Jpg] }

\* The answers of the chained runs: the status endpoint answers 200, with
\* inline data or without, or 404; the CDN answers 200 or 404.
ChainStatusResponses ==
    {Response(200, TRUE, <<>>, TRUE, [mediaAsset |-> [data |-> UriAB]]),
     Response(200, TRUE, <<>>, TRUE, [success |-> TRUE]),
     Response(404, TRUE, BodyText, FALSE, NoJson)}

ChainCdnResponses == {r \in CdnResponses : r.kind = "http" /\ r.bodyOk}

ChainRecommendResponses == {r \in RecommendResponses : r.kind = "http" /\ r.jsonOk}

ChainGenerateResponses == {r \in GenerateResponses : ~ApiFetchFails(r)}

ChainInit ==
    /\ \E options \in ChainClients : Constructed(options, Invocations)
    /\ slugText = <<>>
    /\ slugOnce = Undefined
    /\ slugTwice = Undefined

\* const edited = await client.editImage(earlier.url, options), where earlier
\* is the ImageResult that invocation m returned.
EditResultOf(n, m, options) ==
    /\ outcome[m].kind = "ok"
    /\ \E now \in NowValues : CallEditImage(n, StringSource(outcome[m].url), options, now)

ChainStep(n) ==
    /\ \/ n = 1 /\ \E o \in ChainGenerateInputs : CallGenerateImage(n, o)
       \/ n = 1 /\ \E e \in ChainFirstEdits, now \in NowValues : CallEditImage(n, e[1], e[2], now)
       \/ \E m \in 1..(n - 1), o \in ChainEditOptions : EditResultOf(n, m, o)
       \/ \E r \in ChainRecommendResponses : RecommendResponse(n, r)
       \/ \E r \in ChainGenerateResponses : GenerateResponse(n, r)
       \/ \E r \in ChainStatusResponses : StatusResponse(n, r)
       \/ \E r \in ChainCdnResponses : CdnResponse(n, r)
       \/ TimerFires(n)
    /\ UNCHANGED slugVars

ChainNext == \E n \in Invocations : ChainStep(n)

ChainSpec == ChainInit /\ [][ChainNext]_vars

\* ------------------------------------------------ slugify on its own

\* The characters the texts are made of: a letter, a capital, a digit, the
\* hyphen and a character outside [a-z0-9-].
SlugAlphabet == {"a", "B", "1", "-", " "}

MaxTail == 3

\* Every text of at most MaxTail characters.
ShortTexts == UNION {[1..k -> SlugAlphabet] : k \in 0..MaxTail}

\* k times "a"
Letters(k) == [j \in 1..k |-> "a"]

\* The short texts, and texts around the limit of slice(0, 100): a short
\* text after 98 to 100 letters.
SlugTexts ==
    ShortTexts \cup {Letters(k) \o t : k \in (SlugMax - 2)..SlugMax, t \in ShortTexts}

SlugInit ==
    /\ Constructed(DefaultOptions, {})
    /\ slugText \in SlugTexts
    /\ slugOnce = Undefined
    /\ slugTwice = Undefined

\* this.slugify(text)
Slugify ==
    /\ slugOnce = Undefined
    /\ slugOnce' = slugify(slugText)
    /\ UNCHANGED <<imageUrl, live, pc, call, recommendedSlug, pollVars, histVars, count, sent,
                   outcome, slugText, slugTwice>>

\* this.slugify(slug) on a slug that slugify returned
SlugifyAgain ==
    /\ slugOnce # Undefined
    /\ slugTwice = Undefined
    /\ slugTwice' = slugify(slugOnce)
    /\ UNCHANGED <<imageUrl, live, pc, call, recommendedSlug, pollVars, histVars, count, sent,
                   outcome, slugText, slugOnce>>

SlugNext == Slugify \/ SlugifyAgain

SlugSpec == SlugInit /\ [][SlugNext]_vars

\* ----------------------------------------------------------------- claims

\* The ceiling of t / 3, from its definition.
CeilThird(t) == CHOOSE c \in 0..(t + 1) : 3 * c >= t /\ 3 * (c - 1) < t

\* pollImage has been entered by invocation n.
Polling(n) == label[n] # ""

TimedOut(n) ==
    /\ outcome[n].kind = "error"
    /\ outcome[n].error.name = "OperationTimedOut"

\* C1: one poll with timeout T issues at most ceil(T/3) requests to the status
\* endpoint (60 for the default of 180 seconds), however it ends.
C1_StatusRequestsWithinBudget ==
    \A n \in Invocations :
        /\ count[n].status <= CeilThird(maxSeconds[n])
        /\ maxSeconds[n] = DefaultMaxSeconds => count[n].status <= 60

\* A poll with a timeout of 6 seconds ran out after its second status request.
C1_Witness ==
    \E n \in Invocations :
        /\ maxSeconds[n] = 6
        /\ TimedOut(n)
        /\ count[n].status = 2

\* C2: an answer of the status endpoint other than 200 or 202 ends the poll at
\* that attempt with a failure carrying the label, the status code and the
\* body (the text read from the response, empty when it cannot be read); no
\* status request, CDN fetch or wait follows it.
C2_OtherStatusFailsAtOnce ==
    \A n \in Invocations :
        (lastStatus[n].kind = "http" /\ lastStatus[n].status \notin {200, 202}) =>
            /\ pc[n] = "done"
            /\ outcome[n].kind = "error"
            /\ outcome[n].error.name = "OperationFailed"
            /\ outcome[n].error.label = label[n]
            /\ outcome[n].error.statusCode = lastStatus[n].status
            /\ outcome[n].error.body = lastStatus[n].text
            /\ count[n].status = i[n] + 1
            /\ waits[n] = i[n]
            /\ lastCdn[n] = NoAnswer
            /\ ~ENABLED Step(n)

\* A 404 with a body on the first attempt: one status request, then the failure.
C2_Witness ==
    \E n \in Invocations :
        /\ lastStatus[n].kind = "http"
        /\ lastStatus[n].status = 404
        /\ lastStatus[n].text = BodyText
        /\ count[n].status = 1
        /\ count[n].cdn = 0
        /\ waits[n] = 0
        /\ outcome[n].kind = "error"

\* Every status request of invocation n so far was answered with 202.
AllAccepted(n) == Polling(n) /\ n202[n] = count[n].status

\* C3: when every status attempt is answered with 202, the poll goes on until
\* it has made exactly ceil(T/3) attempts and then fails with the timed-out
\* error, which carries the label, T and the CDN URL of the path.
C3_AllAcceptedTimesOutAtBudget ==
    \A n \in Invocations :
        AllAccepted(n) =>
            IF pc[n] = "done"
            THEN /\ TimedOut(n)
                 /\ outcome[n].error.label = label[n]
                 /\ outcome[n].error.timeoutSeconds = maxSeconds[n]
                 /\ outcome[n].error.url = imageUrl \o <<"/">> \o contentPath[n]
                 /\ count[n].status = CeilThird(maxSeconds[n])
                 /\ maxSeconds[n] = 6 => count[n].status = 2
            ELSE /\ pc[n] = "wait"
                 /\ count[n].status <= CeilThird(maxSeconds[n])
                 /\ ENABLED TimerFires(n)

\* A poll of 6 seconds was answered 202 twice and timed out.
C3_Witness ==
    \E n \in Invocations :
        /\ maxSeconds[n] = 6
        /\ n202[n] = 2
        /\ count[n].status = 2
        /\ TimedOut(n)

\* The part of a data-URI after its first comma.
AfterFirstComma(uri) == SubSeq(uri, FirstOf(uri, {","}) + 1, Len(uri))

\* "<mime-prefix>,<base64>": one comma, and base64 text after it.
IsDataUri(uri) ==
    /\ Cardinality({k \in 1..Len(uri) : uri[k] = ","}) = 1
    /\ atob(AfterFirstComma(uri)).ok

\* C4: after 202 on the first N-1 attempts and 200 with inline data on the
\* N-th (N within the budget), the poll has returned success at the N-th
\* attempt: N status requests, no CDN fetch, and the data decoded from the
\* part of the data-URI after the comma.
C4_InlineDataOnNthAttempt ==
    \A n \in Invocations :
        ( /\ lastStatus[n].kind = "http"
          /\ lastStatus[n].status = 200
          /\ lastStatus[n].inline
          /\ IsDataUri(lastStatus[n].data)
          /\ n202[n] = count[n].status - 1 ) =>
            /\ pc[n] = "done"
            /\ outcome[n].kind = "ok"
            /\ outcome[n].data = atob(AfterFirstComma(lastStatus[n].data)).bytes
            /\ count[n].status = n202[n] + 1
            /\ count[n].status = i[n] + 1
            /\ count[n].status <= CeilThird(maxSeconds[n])
            /\ count[n].cdn = 0

\* Two 202 answers, then inline data: success at the third attempt.
C4_Witness ==
    \E n \in Invocations :
        /\ n202[n] = 2
        /\ count[n].status = 3
        /\ count[n].cdn = 0
        /\ lastStatus[n].kind = "http"
        /\ lastStatus[n].status = 200
        /\ lastStatus[n].data = UriABC
        /\ outcome[n].kind = "ok"
        /\ outcome[n].data = <<65, 66, 67>>

\* The latest attempt of invocation n was answered, and its answer was 202.
LastWas202(n) == lastStatus[n].kind = "http" /\ lastStatus[n].status = 202

\* The latest attempt was answered 200 without inline data and the CDN
\* answered the fallback fetch with a status that is not 2xx.
LastWasMissOnCdn(n) ==
    /\ lastStatus[n].kind = "http"
    /\ lastStatus[n].status = 200
    /\ lastStatus[n].jsonOk
    /\ ~lastStatus[n].inline
    /\ lastCdn[n].kind = "http"
    /\ ~(lastCdn[n].status >= 200 /\ lastCdn[n].status <= 299)

\* The poll of n goes on after an answered attempt: it waits, or has issued
\* the next status request.
GoesOn(n) ==
    /\ lastStatus[n] # NoAnswer
    /\ \/ pc[n] = "wait"
       \/ pc[n] = "status"

\* The latest attempt is settled: answered, and not awaiting the CDN.
AttemptSettled(n) == lastStatus[n] # NoAnswer /\ pc[n] \notin {"status", "cdn"}

\* C5 as stated: a further status attempt is issued only after a 202, and
\* every other outcome of an attempt ends the poll.
C5_Original_RetryOnlyAfter202 ==
    \A n \in Invocations :
        /\ GoesOn(n) => LastWas202(n)
        /\ (AttemptSettled(n) /\ ~LastWas202(n)) => pc[n] = "done"

\* C5, amended: a further status attempt is issued only after a 202, or after
\* a 200 without inline data whose CDN fallback fetch was answered with a
\* status that is not 2xx; every other outcome of an attempt ends the poll.
C5_RetryOnlyAfter202OrCdnMiss ==
    \A n \in Invocations :
        /\ GoesOn(n) => (LastWas202(n) \/ LastWasMissOnCdn(n))
        /\ (AttemptSettled(n) /\ ~LastWas202(n) /\ ~LastWasMissOnCdn(n)) =>
                (pc[n] = "done" /\ ~ENABLED Step(n))

\* A second status request went out after a 200 whose CDN fetch got a 404.
C5_Witness ==
    \E n \in Invocations :
        /\ pc[n] = "status"
        /\ count[n].status = 2
        /\ LastWasMissOnCdn(n)

\* C6 as stated: a poll that declares the timeout has made at most ceil(T/3)
\* HTTP calls, status requests and CDN fetches together.
C6_Original_AllCallsWithinBudget ==
    \A n \in Invocations :
        TimedOut(n) => count[n].status + count[n].cdn <= CeilThird(maxSeconds[n])

\* C6, amended: a poll makes at most ceil(T/3) status requests and at most one
\* CDN fetch per status request, so at most 2 * ceil(T/3) HTTP calls in all.
C6_CallsWithinTwiceBudget ==
    \A n \in Invocations :
        /\ count[n].status <= CeilThird(maxSeconds[n])
        /\ count[n].cdn <= count[n].status
        /\ count[n].status + count[n].cdn <= 2 * CeilThird(maxSeconds[n])

\* A poll of 6 seconds timed out after two status requests and two CDN fetches.
C6_Witness ==
    \E n \in Invocations :
        /\ maxSeconds[n] = 6
        /\ TimedOut(n)
        /\ count[n].status = 2
        /\ count[n].cdn = 2

\* The schemes of the URLs the model's sources spell: "http://", "https://", "ftp://".
UrlSchemes == {HttpScheme, HttpsScheme, <<"f","t","p",":","/","/">>}

\* text is a well-formed URL: a scheme, then a host that is not empty and
\* holds no character a host may not hold.
IsWellFormedUrl(text) ==
    \E scheme \in UrlSchemes :
        /\ StartsWith(text, scheme)
        /\ LET rest == SubSeq(text, Len(scheme) + 1, Len(text))
               host == SubSeq(rest, 1, FirstOf(rest, {"/", "?", "#"}) - 1)
           IN  host # <<>> /\ Range(host) \cap ForbiddenHostChars = {}

EditCall(n) == call[n].op = "editImage"

NoRequests(n) == \A e \in Endpoints : count[n][e] = 0 /\ sent[n][e] = {}

\* C7, as stated: editImage with a string source that is no well-formed URL
\* fails with the invalid-source error, whatever the project option, and
\* issues no upload request and no status request.
C7_MalformedSourceIsInvalidSource ==
    \A n \in Invocations :
        ( /\ EditCall(n)
          /\ call[n].source.type = "string"
          /\ ~IsWellFormedUrl(call[n].source.value) ) =>
            /\ pc[n] = "done"
            /\ outcome[n].kind = "error"
            /\ outcome[n].error.name = "InvalidSource"
            /\ count[n].upload = 0
            /\ count[n].status = 0

\* C8: editImage with a binary source and no project fails with the
\* missing-project error before any network call.
C8_BinaryWithoutProjectFailsFirst ==
    \A n \in Invocations :
        ( /\ EditCall(n)
          /\ call[n].source.type # "string"
          /\ (~Has(call[n].options, "project") \/ call[n].options.project = <<>>) ) =>
            /\ pc[n] = "done"
            /\ outcome[n].kind = "error"
            /\ outcome[n].error.name = "MissingProject"
            /\ NoRequests(n)

\* A Buffer was given without a project, and the call failed with no request.
C8_Witness ==
    \E n \in Invocations :
        /\ EditCall(n)
        /\ call[n].source = BufferSource
        /\ ~Has(call[n].options, "project")
        /\ outcome[n] = [kind |-> "error", error |-> [name |-> "MissingProject"]]
        /\ NoRequests(n)

\* The path of a source URL after its host: what follows the first slash
\* after the scheme, up to the query or fragment.
PathAfterHost(source) ==
    LET from == IF StartsWith(source, HttpsScheme) THEN Len(HttpsScheme) + 1 ELSE Len(HttpScheme) + 1
        slashes == {k \in from..Len(source) : source[k] = "/"}
        marks == {k \in from..Len(source) : source[k] \in {"?", "#"}}
        end == IF marks = {} THEN Len(source) ELSE (CHOOSE k \in marks : \A j \in marks : k <= j) - 1
        slash == IF slashes = {} THEN end ELSE CHOOSE k \in slashes : \A j \in slashes : k <= j
    IN  SubSeq(source, slash + 1, end)

\* An edit by URL that has reached the poll.
EditByUrlPolling(n) ==
    /\ EditCall(n)
    /\ call[n].source.type = "string"
    /\ StartsWith(call[n].source.value, HttpScheme) \/ StartsWith(call[n].source.value, HttpsScheme)
    /\ Polling(n)

\* The format of the claim: F, png when none is given.
ClaimFormat(options) == IF "format" \in DOMAIN options THEN options.format ELSE <<"p","n","g">>

\* P/slugify(I){dims}.F
ClaimEditPath(n, dims) ==
    PathAfterHost(call[n].source.value) \o <<"/">> \o slugify(call[n].options.instruction)
        \o dims \o <<".">> \o ClaimFormat(call[n].options)

\* _{width}x{height}
DimsText(options) == <<"_">> \o Decimal(options.width) \o <<"x">> \o Decimal(options.height)

BothGiven(options) == "width" \in DOMAIN options /\ "height" \in DOMAIN options

\* "proj/img_800x600.png/make-it-sunset.png"
ExamplePath == <<"p","r","o","j","/","i","m","g","_","8","0","0","x","6","0","0",".","p","n","g","/","m","a","k","e","-","i","t","-","s","u","n","s","e","t",".","p","n","g">>

\* The spec's example: the source, "make it sunset", no width, height or format.
IsExampleCall(n) ==
    /\ call[n].source.value = SourceExample
    /\ call[n].options = [instruction |-> InstructionSunset]

PollsExactly(n, path) ==
    /\ contentPath[n] = path
    /\ sent[n].status \subseteq {RequestJsonPrefix \o path}
    /\ sent[n].cdn \subseteq {imageUrl \o <<"/">> \o path}

\* C9, as stated: the path polled by an edit by URL is P/slugify(I){dims}.F,
\* with dims = _{width}x{height} exactly when width and height are both given.
C9_Original_DimsWhenBothGiven ==
    \A n \in Invocations :
        EditByUrlPolling(n) =>
            /\ PollsExactly(n, ClaimEditPath(n, IF BothGiven(call[n].options)
                                                 THEN DimsText(call[n].options) ELSE <<>>))
            /\ IsExampleCall(n) => contentPath[n] = ExamplePath

\* C9, amended: dims = _{width}x{height} exactly when width and height are
\* both given and neither is 0; the rest as stated.
C9_EditPathNestsUnderSource ==
    \A n \in Invocations :
        EditByUrlPolling(n) =>
            /\ PollsExactly(n, ClaimEditPath(n,
                    IF /\ BothGiven(call[n].options)
                       /\ call[n].options.width # 0
                       /\ call[n].options.height # 0
                    THEN DimsText(call[n].options) ELSE <<>>))
            /\ IsExampleCall(n) => contentPath[n] = ExamplePath

\* An edit by URL with width 8, height 6 and jpg polls under the whole source path.
C9_Witness ==
    \E n \in Invocations :
        /\ EditByUrlPolling(n)
        /\ call[n].source.value = SourceExample
        /\ BothGiven(call[n].options)
        /\ count[n].status >= 1
        /\ contentPath[n] = <<"p","r","o","j","/","i","m","g","_","8","0","0","x","6","0","0",".","p","n","g","/","m","a","k","e","-","i","t","-","s","u","n","s","e","t","_","8","x","6",".","j","p","g">>

\* url/recommend failed: the fetch was rejected, or the answer was not 2xx.
RecommendFailed(n) == recommendAnswer[n] \in {"reject", "status"}

\* C10: in smart-URL mode, when url/recommend fails, content/generate is
\* still requested, with slug = slugify(prompt), and the failure of the
\* recommendation is not the outcome of generateImage.
C10_RecommendFailureFallsBack ==
    \A n \in Invocations :
        (call[n].op = "generateImage" /\ RecommendFailed(n)) =>
            /\ count[n].recommend = 1
            /\ count[n].generate = 1
            /\ Cardinality(sent[n].generate) = 1
            /\ \A body \in sent[n].generate :
                    /\ body.slug = slugify(call[n].options.prompt)
                    /\ body.prompt = call[n].options.prompt
            /\ pc[n] # "recommend"
            /\ pc[n] = "generate" => outcome[n] = Pending

\* url/recommend answered 500 and content/generate is awaited with slug "a-b".
C10_Witness ==
    \E n \in Invocations :
        /\ recommendAnswer[n] = "status"
        /\ pc[n] = "generate"
        /\ call[n].options.prompt = PromptAB
        /\ \E body \in sent[n].generate : body.slug = <<"a","-","b">>

\* content/generate answered invocation n with 2xx and a JSON body.
Generated(n) ==
    /\ call[n].op = "generateImage"
    /\ generateAnswer[n].kind = "http"
    /\ generateAnswer[n].status >= 200
    /\ generateAnswer[n].status <= 299
    /\ generateAnswer[n].jsonOk

\* The answer carries inline asset data: mediaAsset.data, not empty.
CarriesInlineData(json) ==
    /\ "mediaAsset" \in DOMAIN json
    /\ "data" \in DOMAIN json.mediaAsset
    /\ json.mediaAsset.data # <<>>

\* The ContentPath of a generation: the path the answer echoes, less its
\* leading slash, or {project}/{slug}.{format} if it echoes none.
ClaimGeneratePath(n) ==
    LET json == generateAnswer[n].json
        o == call[n].options
        slug == IF recommendedSlug[n] = Undefined THEN UndefinedText ELSE recommendedSlug[n]
    IN  IF "prompt" \in DOMAIN json
        THEN (IF json.prompt[1] = "/" THEN Tail(json.prompt) ELSE json.prompt)
        ELSE o.project \o <<"/">> \o slug \o <<".">> \o ClaimFormat(o)

\* C11: in smart-URL mode, when the answer of content/generate carries inline
\* asset data (a data-URI), generateImage has returned success with the
\* decoded data and without any status request or CDN fetch; when it
\* carries none, the poll has been entered on the computed ContentPath with
\* the label "Generating".
C11_InlineGenerateSkipsPoll ==
    \A n \in Invocations :
        Generated(n) =>
            LET json == generateAnswer[n].json
            IN  /\ (CarriesInlineData(json) /\ IsDataUri(json.mediaAsset.data)) =>
                        /\ pc[n] = "done"
                        /\ outcome[n].kind = "ok"
                        /\ outcome[n].data = atob(AfterFirstComma(json.mediaAsset.data)).bytes
                        /\ outcome[n].contentPath = ClaimGeneratePath(n)
                        /\ count[n].status = 0
                        /\ count[n].cdn = 0
                        /\ ~Polling(n)
                        /\ ~ENABLED Step(n)
                /\ ~CarriesInlineData(json) =>
                        /\ Polling(n)
                        /\ label[n] = "Generating"
                        /\ contentPath[n] = ClaimGeneratePath(n)
                        /\ count[n].status >= 1
                        /\ sent[n].status = {RequestJsonPrefix \o ClaimGeneratePath(n)}

\* content/generate answered with inline data and generateImage returned the
\* bytes 65 66 without a status request.
C11_Witness ==
    \E n \in Invocations :
        /\ Generated(n)
        /\ CarriesInlineData(generateAnswer[n].json)
        /\ outcome[n].kind = "ok"
        /\ outcome[n].data = <<65, 66>>
        /\ count[n].status = 0

\* content/generate answered without inline data and the poll is under way.
C11_WitnessPoll ==
    \E n \in Invocations :
        /\ Generated(n)
        /\ ~CarriesInlineData(generateAnswer[n].json)
        /\ pc[n] = "status"
        /\ label[n] = "Generating"
        /\ contentPath[n] = <<"p","r","o","j","/","s","-","1",".","p","n","g">>

\* The characters a slug may hold.
SlugLetters ==
    {"a","b","c","d","e","f","g","h","i","j","k","l","m","n","o","p","q","r","s","t","u","v",
     "w","x","y","z","0","1","2","3","4","5","6","7","8","9"}

\* t matches ^[a-z0-9]+(-[a-z0-9]+)*$: letters, digits and hyphens, no hyphen
\* first or last, no two hyphens in a row.
MatchesSlugPattern(t) ==
    /\ Len(t) > 0
    /\ \A k \in 1..Len(t) : t[k] \in SlugLetters \cup {"-"}
    /\ t[1] # "-"
    /\ t[Len(t)] # "-"
    /\ \A k \in 1..(Len(t) - 1) : ~(t[k] = "-" /\ t[k + 1] = "-")

\* C12, as stated: slugify(slugify(x)) = slugify(x) for every text x.
C12_SlugifyIdempotent ==
    slugTwice # Undefined => slugTwice = slugOnce

\* C13, as stated: slugify(x) has at most 100 characters and is empty or
\* matches ^[a-z0-9]+(-[a-z0-9]+)*$.
C13_SlugIsUrlSafeToken ==
    slugOnce # Undefined =>
        /\ Len(slugOnce) <= 100
        /\ slugOnce = <<>> \/ MatchesSlugPattern(slugOnce)

\* The status URL and the CDN URL of a content path, spelled out.
StatusTargetOf(path) ==
    <<"c","o","n","t","e","n","t","/","r","e","q","u","e","s","t","-","j","s","o","n","/">> \o path

CdnTargetOf(path) == imageUrl \o <<"/">> \o path

\* Invocation n has a ContentPath: it polls, or it has returned.
HasContentPath(n) == contentPath[n] # Undefined

\* Every request of n so far went to the URLs of its ContentPath, and a
\* result carries that path and its CDN URL.
OnePathPolled(n) ==
    /\ sent[n].status \subseteq {StatusTargetOf(contentPath[n])}
    /\ sent[n].cdn \subseteq {CdnTargetOf(contentPath[n])}
    /\ count[n].status >= 1 => sent[n].status = {StatusTargetOf(contentPath[n])}
    /\ count[n].cdn >= 1 => sent[n].cdn = {CdnTargetOf(contentPath[n])}
    /\ outcome[n].kind = "ok" =>
            /\ outcome[n].contentPath = contentPath[n]
            /\ outcome[n].url = CdnTargetOf(contentPath[n])

\* A step leaves the ContentPath of n alone once n has one.
PathKept(n) == HasContentPath(n) => contentPath'[n] = contentPath[n]

\* No status request goes out before the ContentPath is there.
PathBeforePoll(n) == count[n].status >= 1 => HasContentPath(n)

\* C14: within one invocation the ContentPath is computed once, before the
\* first status request, and never changes: every status request goes to
\* content/request-json/{path}, every CDN fetch to {imageUrl}/{path}, and a
\* success returns that path as contentPath and {imageUrl}/{path} as url.
C14_ContentPathFixedDuringPoll ==
    /\ [](\A n \in Invocations : PathBeforePoll(n) /\ (HasContentPath(n) => OnePathPolled(n)))
    /\ [][\A n \in Invocations : PathKept(n)]_vars

\* After two status requests and a CDN fetch, the result came from the CDN
\* at the third attempt.
C14_Witness ==
    \E n \in Invocations :
        /\ HasContentPath(n)
        /\ count[n].status = 3
        /\ count[n].cdn >= 2
        /\ outcome[n].kind = "ok"
        /\ outcome[n].contentPath = contentPath[n]

\* generateImage was called with smartUrl: false.
LegacyCall(n) ==
    /\ call[n].op = "generateImage"
    /\ "smartUrl" \in DOMAIN call[n].options
    /\ call[n].options.smartUrl = FALSE

\* {project}/{slugify(prompt)}{dims}.{format}
ClaimLegacyPath(n, dims) ==
    call[n].options.project \o <<"/">> \o slugify(call[n].options.prompt)
        \o dims \o <<".">> \o ClaimFormat(call[n].options)

\* The only requests of n are status polls and CDN fetches.
OnlyPolls(n) ==
    /\ count[n].recommend = 0
    /\ count[n].generate = 0
    /\ count[n].upload = 0
    /\ count[n].status >= 1

\* C15, as stated: with smartUrl false, generateImage requests neither
\* url/recommend nor content/generate and polls
\* {project}/{slugify(prompt)}{dims}.{format}, with dims = _{width}x{height}
\* exactly when width and height are both set.
C15_Original_LegacyDimsWhenBothSet ==
    \A n \in Invocations :
        LegacyCall(n) =>
            /\ OnlyPolls(n)
            /\ label[n] = "Generating"
            /\ PollsExactly(n, ClaimLegacyPath(n, IF BothGiven(call[n].options)
                                                   THEN DimsText(call[n].options) ELSE <<>>))

\* C15, amended: dims = _{width}x{height} exactly when width and height are
\* both set and neither is 0; the rest as stated.
C15_LegacyPollsDerivedPath ==
    \A n \in Invocations :
        LegacyCall(n) =>
            /\ OnlyPolls(n)
            /\ label[n] = "Generating"
            /\ PollsExactly(n, ClaimLegacyPath(n,
                    IF /\ BothGiven(call[n].options)
                       /\ call[n].options.width # 0
                       /\ call[n].options.height # 0
                    THEN DimsText(call[n].options) ELSE <<>>))

\* A legacy generation of 8 x 6 in jpg has fetched the CDN for "proj/a-b_8x6.jpg".
C15_Witness ==
    \E n \in Invocations :
        /\ LegacyCall(n)
        /\ BothGiven(call[n].options)
        /\ count[n].cdn >= 1
        /\ contentPath[n] = <<"p","r","o","j","/","a","-","b","_","8","x","6",".","j","p","g">>

\* editImage was called with a file (a Buffer or a Blob) and a project.
UploadEdit(n) ==
    /\ EditCall(n)
    /\ call[n].source.type \in {"Buffer", "Blob"}
    /\ "project" \in DOMAIN call[n].options
    /\ call[n].options.project # <<>>

\* The upload of n failed: no answer came, or one that is not 2xx.
UploadFailed(n) ==
    \/ uploadAnswer[n].kind = "reject"
    \/ /\ uploadAnswer[n].kind = "http"
       /\ (uploadAnswer[n].status < 200 \/ uploadAnswer[n].status > 299)

\* The upload of n was answered 2xx with the content path echoed.
UploadEchoed(n) ==
    /\ uploadAnswer[n].kind = "http"
    /\ uploadAnswer[n].status >= 200
    /\ uploadAnswer[n].status <= 299
    /\ uploadAnswer[n].jsonOk
    /\ "content" \in DOMAIN uploadAnswer[n].json
    /\ "prompt" \in DOMAIN uploadAnswer[n].json.content

\* {echoed path without its leading slash}/{slugify(instruction)}{dims}.{format}
ClaimUploadEditPath(n) ==
    LET echoed == uploadAnswer[n].json.content.prompt
        o == call[n].options
        dims == IF BothGiven(o) /\ o.width # 0 /\ o.height # 0 THEN DimsText(o) ELSE <<>>
    IN  (IF echoed[1] = "/" THEN Tail(echoed) ELSE echoed) \o <<"/">> \o slugify(o.instruction)
            \o dims \o <<".">> \o ClaimFormat(o)

\* C16: in an edit by upload with the project set, exactly one content/upload
\* request is issued and it is answered before the first status request; the
\* path polled is {echoed path without its leading slash}/
\* {slugify(instruction)}{dims}.{format}; when the upload fails, its error is
\* the outcome of editImage and no status request is issued.
C16_UploadThenPollUnderEchoedPath ==
    \A n \in Invocations :
        UploadEdit(n) =>
            /\ count[n].upload = 1
            /\ uploadAnswer[n] = NoAnswer =>
                    /\ pc[n] = "upload"
                    /\ count[n].status = 0
                    /\ count[n].cdn = 0
            /\ count[n].status >= 1 => UploadEchoed(n)
            /\ UploadEchoed(n) =>
                    /\ Polling(n)
                    /\ label[n] = "Editing"
                    /\ count[n].status >= 1
                    /\ PollsExactly(n, ClaimUploadEditPath(n))
            /\ UploadFailed(n) =>
                    /\ pc[n] = "done"
                    /\ outcome[n].kind = "error"
                    /\ IF uploadAnswer[n].kind = "reject"
                       THEN outcome[n].error.name = "FetchError"
                       ELSE /\ outcome[n].error.name = "ApiError"
                            /\ outcome[n].error.statusCode = uploadAnswer[n].status
                    /\ count[n].status = 0
                    /\ count[n].cdn = 0
                    /\ ~ENABLED Step(n)

\* A Blob was uploaded for project "proj", the answer echoed "/proj/up", and
\* the edit of 8 x 6 is polled under "proj/up".
C16_Witness ==
    \E n \in Invocations :
        /\ UploadEdit(n)
        /\ UploadEchoed(n)
        /\ count[n].upload = 1
        /\ count[n].status >= 2
        /\ contentPath[n] = <<"p","r","o","j","/","u","p","/","m","a","k","e","-","i","t","-","s","u","n","s","e","t","_","8","x","6",".","p","n","g">>

\* The upload was answered 500 and editImage failed with that error.
C16_WitnessFailure ==
    \E n \in Invocations :
        /\ UploadEdit(n)
        /\ UploadFailed(n)
        /\ outcome[n].kind = "error"
        /\ outcome[n].error.name = "ApiError"
        /\ outcome[n].error.statusCode = 500

\* All that the model keeps for invocation n.
StateOf(n) ==
    <<pc[n], call[n], recommendedSlug[n], contentPath[n], label[n], maxSeconds[n], i[n],
      recommendAnswer[n], generateAnswer[n], uploadAnswer[n], lastStatus[n], lastCdn[n],
      n202[n], waits[n], count[n], sent[n], outcome[n]>>

\* What holds of invocation n by its own attempts alone: its counter is the
\* number of its own status requests, its budget is ceil(T/3) of its own T
\* and is used up when it times out, and its requests go to its own path.
OwnPoll(n) ==
    /\ count[n].status <= CeilThird(maxSeconds[n])
    /\ Polling(n) => count[n].status = (IF TimedOut(n) THEN i[n] ELSE i[n] + 1)
    /\ TimedOut(n) => count[n].status = CeilThird(maxSeconds[n])
    /\ sent[n].status \subseteq {StatusTargetOf(contentPath[n])}
    /\ sent[n].cdn \subseteq {CdnTargetOf(contentPath[n])}
    /\ count[n].cdn <= count[n].status

\* An invocation under way can take its next step whatever the other has
\* done; one that has returned or failed takes none.
OwnProgress(n) ==
    /\ pc[n] \notin {"idle", "done"} => ENABLED ConcStep(n)
    /\ pc[n] = "done" => ~ENABLED ConcStep(n)

\* A step is a step of one invocation: it leaves the other as it was, and
\* the client too; after its end an invocation stays as it ended.
OneInvocationSteps ==
    /\ imageUrl' = imageUrl
    /\ \A n, m \in Invocations :
            (n # m /\ StateOf(n)' # StateOf(n)) => StateOf(m)' = StateOf(m)
    /\ \A n \in Invocations :
            /\ pc[n] = "done" => StateOf(n)' = StateOf(n)
            /\ HasContentPath(n) => contentPath'[n] = contentPath[n]

\* C17: in every interleaving of two invocations on one client, each keeps
\* its own attempt counter, budget and ContentPath (also when both poll the
\* same path); a step, failure or timeout of one leaves the other unchanged
\* and able to go on; an invocation that has returned or failed issues no
\* further request.
C17_ConcurrentInvocationsIndependent ==
    /\ [](\A n \in Invocations : OwnPoll(n) /\ OwnProgress(n))
    /\ [][OneInvocationSteps]_vars

\* On the same path, invocation 1 (3 seconds) timed out after its one
\* attempt while invocation 2 (4 seconds) has issued its second request.
C17_Witness ==
    /\ contentPath[1] = contentPath[2]
    /\ HasContentPath(1)
    /\ maxSeconds[1] = 3
    /\ TimedOut(1)
    /\ count[1].status = 1
    /\ maxSeconds[2] = 4
    /\ pc[2] = "status"
    /\ count[2].status = 2

\* Invocation n is an editImage whose source is the url of the result that
\* the earlier invocation m returned, and it has passed the source check.
ChainedOn(n, m) ==
    /\ m # n
    /\ outcome[m].kind = "ok"
    /\ EditCall(n)
    /\ call[n].source = [type |-> "string", value |-> outcome[m].url]

\* The image base URL of the client has no path component.
BaseUrlHasNoPath == PathAfterHost(imageUrl) = <<>>

\* {the earlier result's contentPath}/{slugify(instruction)}{dims}.{format}
ClaimChainedPath(n, m) ==
    LET o == call[n].options
        dims == IF BothGiven(o) /\ o.width # 0 /\ o.height # 0 THEN DimsText(o) ELSE <<>>
    IN  outcome[m].contentPath \o <<"/">> \o slugify(o.instruction) \o dims
            \o <<".">> \o ClaimFormat(o)

\* The URL parser returns the path as it is written: no character that it
\* percent-encodes and none that ends the path.
ParserKeeps(path) == Range(path) \cap {" ", "?", "#"} = {}

\* C18, as stated: with an image base URL without a path, an editImage given
\* the url of an earlier result polls exactly
\* {that result's contentPath}/{slugify(instruction)}{dims}.{format}.
C18_Original_ChainingRoundTrips ==
    \A n, m \in Invocations :
        (ChainedOn(n, m) /\ BaseUrlHasNoPath) =>
            /\ Polling(n)
            /\ PollsExactly(n, ClaimChainedPath(n, m))

\* C18, amended: the same, for an earlier contentPath that the URL parser
\* returns as written (no space, "?" or "#" in it); an edit of an edit then
\* nests one level deeper.
C18_ChainingRoundTripsOnPlainPaths ==
    \A n, m \in Invocations :
        (ChainedOn(n, m) /\ BaseUrlHasNoPath /\ ParserKeeps(outcome[m].contentPath)) =>
            /\ Polling(n)
            /\ label[n] = "Editing"
            /\ count[n].status >= 1
            /\ PollsExactly(n, ClaimChainedPath(n, m))

\* The edit of an edit: invocation 1 edited the example source, and the edit
\* of its result polls one level deeper.
C18_Witness ==
    /\ ChainedOn(2, 1)
    /\ BaseUrlHasNoPath
    /\ EditCall(1)
    /\ outcome[1].contentPath = ExamplePath
    /\ count[2].status >= 2
    /\ contentPath[2] = ExamplePath \o <<"/","x",".","p","n","g">>

====
